---- MODULE Spec2Model ----
(***************************************************************************)
(* Model of check_private_relay_usage.py: the module-level loader loop     *)
(* that fills relay_nets (lines 27-37), the classifier is_ip_private_relay *)
(* (lines 39-51) and the Spark map that calls it once per record (lines    *)
(* 85-94), run by several workers.                                         *)
(*                                                                         *)
(* Text is a sequence of one-character strings.  A value handed to the    *)
(* ipaddress library is a record Str(s) (a str) or Num(n) (an int).        *)
(* Addresses keep the library's shape, 4 dotted decimal octets for IPv4    *)
(* and 8 colon-separated hextets for IPv6, but an octet carries OctetBits  *)
(* bits and a hextet HextetBits bits instead of 8 and 16.  Text forms the  *)
(* scaling cannot carry (an IPv4 tail inside an IPv6 address, a %scope     *)
(* suffix, the hex letters a-f) are outside the alphabet of the inputs.    *)
(***************************************************************************)
EXTENDS Integers, Sequences, FiniteSets, TLC

\* ---------------------------------------------------------------- bounds
OctetBits == 1       \* bits of one dotted octet (8 in the library)
HextetBits == 1      \* bits of one colon group (16 in the library)
MaxRanges == 2       \* longest relay_ranges list
NumWorkers == 2      \* concurrent Spark tasks in SpecConc

\* ------------------------------------------------- library constants
V4Octets == 4        \* octets of an IPv4 address
V6Hextets == 8       \* groups of an IPv6 address

\* ------------------------------------------------------------ arithmetic
RECURSIVE Pow2(_)
Pow2(n) == IF n = 0 THEN 1 ELSE 2 * Pow2(n - 1)

RECURSIVE BitAnd(_, _)
BitAnd(a, b) ==
  IF a = 0 \/ b = 0 THEN 0
  ELSE (a % 2) * (b % 2) + 2 * BitAnd(a \div 2, b \div 2)

max_prefixlen(v) == IF v = 4 THEN V4Octets * OctetBits ELSE V6Hextets * HextetBits

ALL_ONES(v) == Pow2(max_prefixlen(v)) - 1

\* netmask of a prefix length: the high-order p bits of the family's width
ip_int_from_prefix(v, p) == ALL_ONES(v) - (Pow2(max_prefixlen(v) - p) - 1)

\* ------------------------------------------------------------------ text
Digits == <<"0", "1", "2", "3", "4", "5", "6", "7", "8", "9">>

IsDigit(c) == \E i \in 1..Len(Digits) : Digits[i] = c

DigitVal(c) == (CHOOSE i \in 1..Len(Digits) : Digits[i] = c) - 1

AllDigits(s) == \A i \in 1..Len(s) : IsDigit(s[i])

RECURSIVE IntOfDigits(_, _)
IntOfDigits(s, base) ==
  IF s = <<>> THEN 0
  ELSE IntOfDigits(SubSeq(s, 1, Len(s) - 1), base) * base + DigitVal(s[Len(s)])

Contains(s, c) == \E i \in 1..Len(s) : s[i] = c

\* str.split(c)
RECURSIVE Split(_, _)
Split(s, c) ==
  IF s = <<>> THEN << <<>> >>
  ELSE LET r == Split(Tail(s), c)
       IN  IF Head(s) = c THEN << <<>> >> \o r
           ELSE << <<Head(s)>> \o r[1] >> \o Tail(r)

\* int.from_bytes(..., 'big') over groups of `bits` bits
RECURSIVE JoinGroups(_, _)
JoinGroups(vals, bits) ==
  IF vals = <<>> THEN 0
  ELSE JoinGroups(SubSeq(vals, 1, Len(vals) - 1), bits) * Pow2(bits) + vals[Len(vals)]

\* ------------------------------------------------- values and outcomes
Str(s) == [kind |-> "str", str |-> s, int |-> 0]
Num(n) == [kind |-> "int", str |-> <<>>, int |-> n]

\* the outcome of a library call: ok = FALSE stands for a raised ValueError
Addr(v, n) == [ok |-> TRUE, version |-> v, ip |-> n]
AddressValueError == [ok |-> FALSE, version |-> 0, ip |-> 0]

\* ------------------------------------------------ ipaddress.IPv4Address
\* _parse_octet; the refusal of a leading zero is that of Python 3.9.5 and later
parse_octet_ok(o) ==
  /\ o # <<>>
  /\ AllDigits(o)
  /\ Len(o) <= 3
  /\ ~(Len(o) > 1 /\ o[1] = "0")
  /\ IntOfDigits(o, 10) <= Pow2(OctetBits) - 1

v4_int_from_str(s) ==
  LET octets == Split(s, ".")
  IN  IF s = <<>> \/ Len(octets) # V4Octets THEN AddressValueError
      ELSE IF \E i \in 1..Len(octets) : ~parse_octet_ok(octets[i]) THEN AddressValueError
      ELSE Addr(4, JoinGroups([i \in 1..Len(octets) |-> IntOfDigits(octets[i], 10)], OctetBits))

IPv4Address(a) ==
  IF a.kind = "int"
  THEN IF a.int < 0 \/ a.int > ALL_ONES(4) THEN AddressValueError ELSE Addr(4, a.int)
  ELSE IF Contains(a.str, "/") THEN AddressValueError
  ELSE v4_int_from_str(a.str)

\* ------------------------------------------------ ipaddress.IPv6Address
parse_hextet_ok(h) ==
  /\ AllDigits(h)
  /\ Len(h) <= 4
  /\ h # <<>>
  /\ IntOfDigits(h, 16) <= Pow2(HextetBits) - 1

\* index of the part that stands for '::', 0 when there is none,
\* -1 when more than one part is empty
skip_index(parts) ==
  LET empties == {i \in 2..(Len(parts) - 1) : parts[i] = <<>>}
  IN  IF empties = {} THEN 0
      ELSE IF Cardinality(empties) > 1 THEN -1
      ELSE CHOOSE i \in empties : TRUE

v6_int_from_str(s) ==
  LET parts == Split(s, ":")
      n     == Len(parts)
      skip  == skip_index(parts)
      hi0   == skip - 1
      lo0   == n - skip
      hi    == IF parts[1] = <<>> THEN hi0 - 1 ELSE hi0
      lo    == IF parts[n] = <<>> THEN lo0 - 1 ELSE lo0
      skipped == V6Hextets - (hi + lo)
      his   == [i \in 1..hi |-> parts[i]]
      los   == [i \in 1..lo |-> parts[n - lo + i]]
      val(h) == IntOfDigits(h, 16)
  IN  IF s = <<>> \/ n < 3 \/ n > V6Hextets + 1 \/ skip = -1 THEN AddressValueError
      ELSE IF skip = 0
      THEN IF n # V6Hextets \/ parts[1] = <<>> \/ parts[n] = <<>> THEN AddressValueError
           ELSE IF \E i \in 1..n : ~parse_hextet_ok(parts[i]) THEN AddressValueError
           ELSE Addr(6, JoinGroups([i \in 1..n |-> val(parts[i])], HextetBits))
      ELSE IF (parts[1] = <<>> /\ hi # 0) \/ (parts[n] = <<>> /\ lo # 0) \/ skipped < 1
           THEN AddressValueError
      ELSE IF \E i \in 1..hi : ~parse_hextet_ok(his[i]) THEN AddressValueError
      ELSE IF \E i \in 1..lo : ~parse_hextet_ok(los[i]) THEN AddressValueError
      ELSE Addr(6, JoinGroups([i \in 1..hi |-> val(his[i])], HextetBits)
                     * Pow2(HextetBits * (skipped + lo))
                   + JoinGroups([i \in 1..lo |-> val(los[i])], HextetBits))

IPv6Address(a) ==
  IF a.kind = "int"
  THEN IF a.int < 0 \/ a.int > ALL_ONES(6) THEN AddressValueError ELSE Addr(6, a.int)
  ELSE IF Contains(a.str, "/") THEN AddressValueError
  ELSE v6_int_from_str(a.str)

\* ------------------------------------------------- ipaddress.ip_address
\* IPv4 is tried first, then IPv6; ok = FALSE is the ValueError of line 48
ip_address(a) ==
  IF IPv4Address(a).ok THEN IPv4Address(a)
  ELSE IF IPv6Address(a).ok THEN IPv6Address(a)
  ELSE AddressValueError

\* ------------------------------------------------- ipaddress.ip_network
Net(v, a, p) ==
  [ok |-> TRUE, version |-> v, network_address |-> a, prefixlen |-> p,
   netmask |-> Addr(v, ip_int_from_prefix(v, p))]
NetValueError ==
  [ok |-> FALSE, version |-> 0, network_address |-> 0, prefixlen |-> 0,
   netmask |-> AddressValueError]

\* _split_addr_prefix: the parts around '/', <<>> when there are two or more '/'
split_addr_prefix(a) ==
  IF a.kind = "int" THEN <<a>>
  ELSE LET parts == Split(a.str, "/")
       IN  IF Len(parts) > 2 THEN <<>>
           ELSE [i \in 1..Len(parts) |-> Str(parts[i])]

\* _prefix_from_prefix_string: -1 stands for NetmaskValueError
prefix_from_prefix_string(v, s) ==
  IF s = <<>> \/ ~AllDigits(s) THEN -1
  ELSE IF IntOfDigits(s, 10) > max_prefixlen(v) THEN -1
  ELSE IntOfDigits(s, 10)

\* _prefix_from_ip_int: the prefix length whose netmask is n, -1 when none
prefix_from_ip_int(v, n) ==
  IF \E p \in 0..max_prefixlen(v) : ip_int_from_prefix(v, p) = n
  THEN CHOOSE p \in 0..max_prefixlen(v) : ip_int_from_prefix(v, p) = n
  ELSE -1

\* _prefix_from_ip_string (IPv4 only): a dotted netmask, else a dotted hostmask
prefix_from_ip_string(s) ==
  LET m == v4_int_from_str(s)
  IN  IF ~m.ok THEN -1
      ELSE IF prefix_from_ip_int(4, m.ip) # -1 THEN prefix_from_ip_int(4, m.ip)
      ELSE prefix_from_ip_int(4, ALL_ONES(4) - m.ip)

make_netmask(v, parts) ==
  IF Len(parts) = 1 THEN max_prefixlen(v)
  ELSE IF prefix_from_prefix_string(v, parts[2].str) # -1
       THEN prefix_from_prefix_string(v, parts[2].str)
  ELSE IF v = 4 THEN prefix_from_ip_string(parts[2].str)
  ELSE -1

\* a parse that keeps the address as written and never looks at its host bits
NetworkUnmasked(v, a) ==
  LET parts == split_addr_prefix(a)
      addr  == IF v = 4 THEN IPv4Address(parts[1]) ELSE IPv6Address(parts[1])
      p     == make_netmask(v, parts)
  IN  IF parts = <<>> THEN NetValueError
      ELSE IF ~addr.ok \/ p = -1 THEN NetValueError
      ELSE Net(v, addr.ip, p)

\* strict = False: host bits are masked away instead of refused
NetworkNonStrict(v, a) ==
  LET parts == split_addr_prefix(a)
      addr  == IF v = 4 THEN IPv4Address(parts[1]) ELSE IPv6Address(parts[1])
      p     == make_netmask(v, parts)
  IN  IF parts = <<>> THEN NetValueError
      ELSE IF ~addr.ok \/ p = -1 THEN NetValueError
      ELSE Net(v, BitAnd(addr.ip, ip_int_from_prefix(v, p)), p)

\* strict = True, the default: an address with host bits set is refused
Network(v, a) ==
  LET parts == split_addr_prefix(a)
      addr  == IF v = 4 THEN IPv4Address(parts[1]) ELSE IPv6Address(parts[1])
      p     == make_netmask(v, parts)
  IN  IF parts = <<>> THEN NetValueError
      ELSE IF ~addr.ok \/ p = -1 THEN NetValueError
      ELSE IF BitAnd(addr.ip, ip_int_from_prefix(v, p)) # addr.ip THEN NetValueError
      ELSE Net(v, addr.ip, p)

\* a first parse that gets as far as the host-bits test raises a plain
\* ValueError, which ip_network does not catch: IPv6 is not tried after it
HasHostBits(v, a) ==
  LET parts == split_addr_prefix(a)
      addr  == IF v = 4 THEN IPv4Address(parts[1]) ELSE IPv6Address(parts[1])
      p     == make_netmask(v, parts)
  IN  /\ parts # <<>>
      /\ addr.ok
      /\ p # -1
      /\ BitAnd(addr.ip, ip_int_from_prefix(v, p)) # addr.ip

ip_network(a) ==
  IF Network(4, a).ok THEN Network(4, a)
  ELSE IF HasHostBits(4, a) THEN NetValueError
  ELSE IF Network(6, a).ok THEN Network(6, a)
  ELSE NetValueError

\* ------------------------------------------------------------ relay_nets
\* a dict is the sequence of its items in insertion order
EmptyNets == [k \in {"4", "6"} |-> <<>>]

VerKey(v) == IF v = 4 THEN "4" ELSE "6"

HasKey(d, k) == \E i \in 1..Len(d) : d[i].netmask = k

\* defaultdict(set).__getitem__: a missing key is created with an empty set
DefaultGet(d, k) ==
  IF HasKey(d, k) THEN d ELSE Append(d, [netmask |-> k, range_set |-> {}])

\* d[k].add(x) on a key that exists
SetAdd(d, k, x) ==
  [i \in 1..Len(d) |->
     IF d[i].netmask = k THEN [d[i] EXCEPT !.range_set = @ \cup {x}] ELSE d[i]]

\* an insertion that assigns a fresh one-element set to the netmask's key
InsertOverwrite(nets, net) ==
  [nets EXCEPT ![VerKey(net.version)] =
     LET d == DefaultGet(@, net.netmask)
     IN  [i \in 1..Len(d) |->
            IF d[i].netmask = net.netmask
            THEN [d[i] EXCEPT !.range_set = {net.network_address}] ELSE d[i]]]

\* line 37: relay_nets[net_v][net.netmask].add(int(net.network_address))
Insert(nets, net) ==
  [nets EXCEPT ![VerKey(net.version)] =
     SetAdd(DefaultGet(@, net.netmask), net.netmask, net.network_address)]

\* ------------------------------------------------------ the inputs drawn
\* str(n) for n >= 0
RECURSIVE DecText(_)
DecText(n) == IF n < 10 THEN <<Digits[n + 1]>> ELSE DecText(n \div 10) \o <<Digits[(n % 10) + 1]>>

RECURSIVE GroupsText(_, _, _, _)
GroupsText(n, groups, bits, sep) ==
  IF groups = 1 THEN DecText(n % Pow2(bits))
  ELSE GroupsText(n \div Pow2(bits), groups - 1, bits, sep) \o <<sep>> \o DecText(n % Pow2(bits))

V4Text(n) == GroupsText(n, V4Octets, OctetBits, ".")
V6Text(n) == GroupsText(n, V6Hextets, HextetBits, ":")
Cidr(t, p) == Str(t \o <<"/">> \o DecText(p))

W4 == max_prefixlen(4)
W6 == max_prefixlen(6)

\* rows of egress-ip-ranges.csv that ip_network accepts
GoodRanges ==
  { Cidr(V4Text(Pow2(W4 - 1)), 1),                    \* the upper half of IPv4
    Cidr(V4Text(3 * Pow2(W4 - 2)), 2),                \* inside it, longer prefix
    Cidr(V4Text(Pow2(W4 - 2)), 2),                    \* same netmask, other network
    Str(V4Text(Pow2(W4 - 2)) \o <<"/">> \o V4Text(3 * Pow2(W4 - 2))), \* the same, dotted netmask
    Cidr(V6Text(Pow2(W6 - 1)), 1),                    \* the upper half of IPv6
    Cidr(V6Text(Pow2(W4 - 1)), W6 - W4 + 1),          \* IPv6, numerically an IPv4 network
    Str(<<":", ":", "1">>) }                          \* no prefix: a single address

\* rows with a well-formed address and prefix length whose host bits are not zero
HostBitRanges ==
  { Cidr(V4Text(Pow2(W4 - 1) + 1), 1),
    Cidr(V6Text(Pow2(W6 - 1) + 1), 1) }

\* rows that are no address/prefix pair at all
BadRanges ==
  { Str(<<>>),
    Cidr(SubSeq(V4Text(0), 1, Len(V4Text(0)) - 2), 1),
    Cidr(V4Text(0), W6 + 1) }

RangePool == GoodRanges \cup HostBitRanges \cup BadRanges

ConcRangePool ==
  { Cidr(V4Text(Pow2(W4 - 1)), 1),
    Cidr(V4Text(Pow2(W4 - 2)), 2),
    Cidr(V6Text(Pow2(W4 - 1)), W6 - W4 + 1) }

\* values of r.ip that ip_address accepts
GoodInputs ==
  { Str(V4Text(n)) : n \in {0, Pow2(W4 - 2), Pow2(W4 - 1), Pow2(W4 - 1) + 1,
                            3 * Pow2(W4 - 2), ALL_ONES(4)} }
  \cup { Str(V6Text(n)) : n \in {Pow2(W4 - 1), Pow2(W4 - 1) + 1, Pow2(W6 - 1),
                                 ALL_ONES(6)} }
  \cup { Str(<<":", ":">>), Str(<<":", ":", "1">>),
         Num(Pow2(W4 - 1)), Num(Pow2(W4)) }

\* values of r.ip that ip_address refuses
MalformedInputs ==
  { Str(<<>>),
    Str(<<"n", "o", "t", "-", "a", "n", "-", "i", "p">>),
    Str(SubSeq(V4Text(0), 1, Len(V4Text(0)) - 2)),
    Str(V4Text(Pow2(W4 - 1)) \o <<"/", "1">>),
    Str(<<":", ":", ":">>),
    Num(-1),
    Num(Pow2(W6)) }

QueryPool == GoodInputs \cup MalformedInputs

ConcQueryPool ==
  { Str(V4Text(Pow2(W4 - 1))), Str(V4Text(Pow2(W4 - 2))), Str(V4Text(0)),
    Str(<<"n", "o", "t", "-", "a", "n", "-", "i", "p">>) }

ListsOver(S, n) == UNION { [1..k -> S] : k \in 0..n }

\* line 33 and line 41 on each input that can be drawn, computed once
NetTable == [a \in RangePool |-> ip_network(a)]
AddrTable == [x \in QueryPool |-> ip_address(x)]

\* ----------------------------------------------------------------- state
VARIABLES
  relay_ranges,   \* line 15: the range column of the csv
  relay_nets,     \* lines 27-30: the index
  main_pc,        \* where the script is: "load", "spark", "done", "failed"
  net_i,          \* line 32: position of the loader loop in relay_ranges
  wpc,            \* per worker: "idle", "parse", "iter", "ret", "raised"
  ip_raw,         \* per worker: the argument of is_ip_private_relay
  bin_ip,         \* per worker: line 42
  ip_version,     \* per worker: ip.version
  it,             \* per worker: position of the iterator of line 44
  is_relay,       \* per worker: the value returned (line 47 or 51)
  queried         \* history: some call of is_ip_private_relay was made

vars == <<relay_ranges, relay_nets, main_pc, net_i, wpc, ip_raw, bin_ip,
          ip_version, it, is_relay, queried>>

Workers == 1..NumWorkers
NoInput == Str(<<>>)

wvars == <<wpc, ip_raw, bin_ip, ip_version, it, is_relay>>
lvars == <<relay_ranges, relay_nets, net_i>>

InitWith(lists) ==
  /\ relay_ranges \in lists
  /\ relay_nets = EmptyNets
  /\ main_pc = "load"
  /\ net_i = 1
  /\ wpc = [w \in Workers |-> "idle"]
  /\ ip_raw = [w \in Workers |-> NoInput]
  /\ bin_ip = [w \in Workers |-> 0]
  /\ ip_version = [w \in Workers |-> 0]
  /\ it = [w \in Workers |-> 0]
  /\ is_relay = [w \in Workers |-> FALSE]
  /\ queried = FALSE

Init == InitWith(ListsOver(RangePool, MaxRanges))
InitConc == InitWith(ListsOver(ConcRangePool, MaxRanges))

\* ------------------------------------------------- the loader, lines 32-37
\* a loop body that swallows the ValueError and goes on to the next entry
LoadEntrySkip ==
  /\ main_pc = "load"
  /\ net_i <= Len(relay_ranges)
  /\ LET net == ip_network(relay_ranges[net_i])
     IN  IF net.ok
         THEN relay_nets' = Insert(relay_nets, net)
         ELSE relay_nets' = relay_nets
  /\ net_i' = net_i + 1
  /\ UNCHANGED <<relay_ranges, main_pc, wvars, queried>>

\* one pass of the loop body; a ValueError of line 33 is not caught and
\* ends the script with relay_nets as the earlier passes left it
LoadEntry ==
  /\ main_pc = "load"
  /\ net_i <= Len(relay_ranges)
  /\ LET net == ip_network(relay_ranges[net_i])
     IN  IF net.ok
         THEN /\ relay_nets' = Insert(relay_nets, net)
              /\ net_i' = net_i + 1
              /\ main_pc' = main_pc
         ELSE /\ main_pc' = "failed"
              /\ UNCHANGED <<relay_nets, net_i>>
  /\ UNCHANGED <<relay_ranges, wvars, queried>>

\* the loop is exhausted; lines 39-94 define the function and the lazy Spark
\* job, whose tasks run when line 103 collects it
LoadDone ==
  /\ main_pc = "load"
  /\ net_i > Len(relay_ranges)
  /\ main_pc' = "spark"
  /\ UNCHANGED <<lvars, wvars, queried>>

\* ------------------------------------- is_ip_private_relay, lines 39-51
\* a map that is evaluated eagerly, while the loader loop still runs
CallEarly(w, pool) ==
  /\ main_pc \in {"load", "spark"}
  /\ wpc[w] = "idle"
  /\ \E raw \in pool : ip_raw' = [ip_raw EXCEPT ![w] = raw]
  /\ wpc' = [wpc EXCEPT ![w] = "parse"]
  /\ queried' = TRUE
  /\ UNCHANGED <<lvars, main_pc, bin_ip, ip_version, it, is_relay>>

\* line 92: a task calls the function on the ip of its next record
Call(w, pool) ==
  /\ main_pc = "spark"
  /\ wpc[w] = "idle"
  /\ \E raw \in pool : ip_raw' = [ip_raw EXCEPT ![w] = raw]
  /\ wpc' = [wpc EXCEPT ![w] = "parse"]
  /\ queried' = TRUE
  /\ UNCHANGED <<lvars, main_pc, bin_ip, ip_version, it, is_relay>>

\* an except clause that names another exception: the ValueError escapes
ExceptOther(w, e) ==
  IF e = "TypeError"
  THEN /\ wpc' = [wpc EXCEPT ![w] = "ret"]
       /\ is_relay' = [is_relay EXCEPT ![w] = FALSE]
  ELSE /\ wpc' = [wpc EXCEPT ![w] = "raised"]
       /\ UNCHANGED is_relay

\* lines 48-51: the except clause takes a ValueError to the final return
Except(w, e) ==
  IF e = "ValueError"
  THEN /\ wpc' = [wpc EXCEPT ![w] = "ret"]
       /\ is_relay' = [is_relay EXCEPT ![w] = FALSE]
  ELSE /\ wpc' = [wpc EXCEPT ![w] = "raised"]
       /\ UNCHANGED is_relay

\* lines 41-42
Parse(w) ==
  /\ wpc[w] = "parse"
  /\ LET ip == ip_address(ip_raw[w])
     IN  IF ip.ok
         THEN /\ bin_ip' = [bin_ip EXCEPT ![w] = ip.ip]
              /\ ip_version' = [ip_version EXCEPT ![w] = ip.version]
              /\ it' = [it EXCEPT ![w] = 1]
              /\ wpc' = [wpc EXCEPT ![w] = "iter"]
              /\ UNCHANGED is_relay
         ELSE /\ Except(w, "ValueError")
              /\ UNCHANGED <<bin_ip, ip_version, it>>
  /\ UNCHANGED <<lvars, main_pc, ip_raw, queried>>

\* a lookup that does not dispatch on the family: both sub-indexes are scanned
ItemsBothFamilies(w) == relay_nets["4"] \o relay_nets["6"]

\* line 44: the items of the sub-index of the address's family
Items(w) == relay_nets[VerKey(ip_version[w])]

\* a loop that returns False as soon as the first netmask does not match
IterStepFirstOnly(w) ==
  /\ wpc[w] = "iter"
  /\ IF it[w] > Len(Items(w))
     THEN /\ is_relay' = [is_relay EXCEPT ![w] = FALSE]
          /\ wpc' = [wpc EXCEPT ![w] = "ret"]
          /\ UNCHANGED it
     ELSE LET item == Items(w)[it[w]]
              bin_netmask == item.netmask.ip
          IN  /\ is_relay' = [is_relay EXCEPT ![w] =
                                BitAnd(bin_ip[w], bin_netmask) \in item.range_set]
              /\ wpc' = [wpc EXCEPT ![w] = "ret"]
              /\ UNCHANGED it
  /\ UNCHANGED <<lvars, main_pc, ip_raw, bin_ip, ip_version, queried>>

\* a lookup that indexes the defaultdict by a netmask key, relay_nets[v][m],
\* before it scans: a missing key is created with an empty set
IterStepProbe(w) ==
  /\ wpc[w] = "iter"
  /\ IF it[w] > Len(Items(w))
     THEN /\ is_relay' = [is_relay EXCEPT ![w] = FALSE]
          /\ wpc' = [wpc EXCEPT ![w] = "ret"]
          /\ UNCHANGED it
     ELSE LET item == Items(w)[it[w]]
              bin_netmask == item.netmask.ip
          IN  IF BitAnd(bin_ip[w], bin_netmask) \in item.range_set
              THEN /\ is_relay' = [is_relay EXCEPT ![w] = TRUE]
                   /\ wpc' = [wpc EXCEPT ![w] = "ret"]
                   /\ UNCHANGED it
              ELSE /\ it' = [it EXCEPT ![w] = it[w] + 1]
                   /\ UNCHANGED <<is_relay, wpc>>
  /\ relay_nets' = [relay_nets EXCEPT ![VerKey(ip_version[w])] =
                      DefaultGet(@, Addr(ip_version[w], ALL_ONES(ip_version[w])))]
  /\ UNCHANGED <<relay_ranges, net_i, main_pc, ip_raw, bin_ip, ip_version, queried>>

\* bin_ip kept in one module-level slot that every task writes: a task reads
\* the value of the lowest-numbered task that is in its loop
IterStepShared(w) ==
  LET u == CHOOSE u \in Workers :
             wpc[u] = "iter" /\ \A t \in Workers : wpc[t] = "iter" => u <= t
  IN
  /\ wpc[w] = "iter"
  /\ IF it[w] > Len(Items(w))
     THEN /\ is_relay' = [is_relay EXCEPT ![w] = FALSE]
          /\ wpc' = [wpc EXCEPT ![w] = "ret"]
          /\ UNCHANGED it
     ELSE LET item == Items(w)[it[w]]
              bin_netmask == item.netmask.ip
          IN  IF BitAnd(bin_ip[u], bin_netmask) \in item.range_set
              THEN /\ is_relay' = [is_relay EXCEPT ![w] = TRUE]
                   /\ wpc' = [wpc EXCEPT ![w] = "ret"]
                   /\ UNCHANGED it
              ELSE /\ it' = [it EXCEPT ![w] = it[w] + 1]
                   /\ UNCHANGED <<is_relay, wpc>>
  /\ UNCHANGED <<lvars, main_pc, ip_raw, bin_ip, ip_version, queried>>

\* lines 44-47 and 51: one pass of the loop over the items, or its end
IterStep(w) ==
  /\ wpc[w] = "iter"
  /\ IF it[w] > Len(Items(w))
     THEN /\ is_relay' = [is_relay EXCEPT ![w] = FALSE]
          /\ wpc' = [wpc EXCEPT ![w] = "ret"]
          /\ UNCHANGED it
     ELSE LET item == Items(w)[it[w]]
              bin_netmask == item.netmask.ip
          IN  IF BitAnd(bin_ip[w], bin_netmask) \in item.range_set
              THEN /\ is_relay' = [is_relay EXCEPT ![w] = TRUE]
                   /\ wpc' = [wpc EXCEPT ![w] = "ret"]
                   /\ UNCHANGED it
              ELSE /\ it' = [it EXCEPT ![w] = it[w] + 1]
                   /\ UNCHANGED <<is_relay, wpc>>
  /\ UNCHANGED <<lvars, main_pc, ip_raw, bin_ip, ip_version, queried>>

\* lines 86-93: the value becomes the row's is_relay and the frame is dropped
Return(w) ==
  /\ wpc[w] = "ret"
  /\ wpc' = [wpc EXCEPT ![w] = "idle"]
  /\ ip_raw' = [ip_raw EXCEPT ![w] = NoInput]
  /\ bin_ip' = [bin_ip EXCEPT ![w] = 0]
  /\ ip_version' = [ip_version EXCEPT ![w] = 0]
  /\ it' = [it EXCEPT ![w] = 0]
  /\ is_relay' = [is_relay EXCEPT ![w] = FALSE]
  /\ UNCHANGED <<lvars, main_pc, queried>>

\* lines 103-108: every task has ended, the result is written
Finish ==
  /\ main_pc = "spark"
  /\ \A w \in Workers : wpc[w] = "idle"
  /\ main_pc' = "done"
  /\ UNCHANGED <<lvars, wvars, queried>>

\* one task at a time
Next ==
  \/ LoadEntry
  \/ LoadDone
  \/ Call(1, QueryPool)
  \/ Parse(1)
  \/ IterStep(1)
  \/ Return(1)
  \/ Finish

Spec == Init /\ [][Next]_vars

\* the tasks of the map interleave
NextConc ==
  \/ LoadEntry
  \/ LoadDone
  \/ \E w \in Workers : Call(w, ConcQueryPool)
  \/ \E w \in Workers : Parse(w)
  \/ \E w \in Workers : IterStep(w)
  \/ \E w \in Workers : Return(w)
  \/ Finish

SpecConc == InitConc /\ [][NextConc]_vars

\* ------------------------------------- the function and the loop as wholes
\* lines 44-47 and 51 run to completion on a parsed address
Classify(ip, nets) ==
  \E i \in 1..Len(nets[VerKey(ip.version)]) :
    LET item == nets[VerKey(ip.version)][i]
    IN  BitAnd(ip.ip, item.netmask.ip) \in item.range_set

\* lines 39-51 run to completion, alone
is_ip_private_relay(raw, nets) ==
  LET ip == ip_address(raw)
  IN  ip.ok /\ Classify(ip, nets)

\* lines 27-37 run to completion on a list every entry of which parses
RECURSIVE BuildIndex(_)
BuildIndex(L) ==
  IF L = <<>> THEN EmptyNets
  ELSE Insert(BuildIndex(SubSeq(L, 1, Len(L) - 1)), NetTable[L[Len(L)]])

\* --------------------------------------------- vocabulary of the claims
Range(L) == {L[i] : i \in 1..Len(L)}

\* the parsed ranges of the input list
Loaded == {NetTable[relay_ranges[i]] : i \in 1..Len(relay_ranges)}

\* the index holds address a under netmask m of family v, in v's sub-index
InIndex(v, m, a) ==
  \E i \in 1..Len(relay_nets[VerKey(v)]) :
    /\ relay_nets[VerKey(v)][i].netmask = Addr(v, m)
    /\ a \in relay_nets[VerKey(v)][i].range_set

\* a linear scan over all loaded ranges: x & M = A in some range of x's family
LinearScan(ip, loaded) ==
  \E n \in loaded :
    n.ok /\ n.version = ip.version /\ BitAnd(ip.ip, n.netmask.ip) = n.network_address

\* the value with the high-order p bits of a w-bit word set
RECURSIVE HighBits(_, _)
HighBits(w, p) == IF p = 0 THEN 0 ELSE Pow2(w - 1) + HighBits(w - 1, p - 1)

\* the loader is through and the tasks have not started: the built index
Built == main_pc = "spark" /\ ~queried

Returned(w) == wpc[w] = "ret"

\* ------------------------------------------------------------ the claims
HostMask(n) == ALL_ONES(n.version) - n.netmask.ip

\* the first and last address of a range and their outer neighbours
Edges(n) ==
  {n.network_address - 1, n.network_address, n.network_address + HostMask(n),
   n.network_address + HostMask(n) + 1} \cap 0..ALL_ONES(n.version)

\* C1: on an index built from valid CIDR strings, a validly parsed address
\* classifies true exactly when some loaded range of its family has
\* x & M = A: the netmask-grouped lookup equals a linear scan over the
\* loaded ranges; every address from A to A | ~M is true.
C1_LookupIsLinearScan ==
  LET loaded == Loaded
  IN
  /\ \A w \in Workers :
       Returned(w) /\ AddrTable[ip_raw[w]].ok
         => is_relay[w] = LinearScan(AddrTable[ip_raw[w]], loaded)
  /\ Built =>
       /\ \A x \in 0..ALL_ONES(4) :
            Classify(Addr(4, x), relay_nets) = LinearScan(Addr(4, x), loaded)
       /\ \A n \in loaded :
            /\ \A x \in Edges(n) :
                 Classify(Addr(n.version, x), relay_nets) = LinearScan(Addr(n.version, x), loaded)
            /\ Classify(Addr(n.version, n.network_address), relay_nets)
            /\ Classify(Addr(n.version, n.network_address + HostMask(n)), relay_nets)
            /\ n.version = 4 =>
                 \A x \in n.network_address..(n.network_address + HostMask(n)) :
                   Classify(Addr(4, x), relay_nets)

\* a match found in the second netmask group of an index of several ranges
C1_Witness ==
  \E w \in Workers :
    /\ Returned(w)
    /\ is_relay[w]
    /\ it[w] = 2
    /\ Len(relay_ranges) >= 2

\* C2: an input that is no IPv4 or IPv6 address makes is_ip_private_relay
\* return false, whatever the index holds, and no error reaches the caller.
C2_MalformedIsFalse ==
  \A w \in Workers :
    /\ wpc[w] # "raised"
    /\ (wpc[w] \notin {"idle", "parse"}
        /\ (ip_raw[w] \in MalformedInputs \/ ~AddrTable[ip_raw[w]].ok))
         => Returned(w) /\ is_relay[w] = FALSE

\* a malformed string other than the empty one returned false on an index
\* that holds ranges
C2_Witness ==
  \E w \in Workers :
    /\ Returned(w)
    /\ ip_raw[w] \in MalformedInputs
    /\ ip_raw[w] # NoInput
    /\ ~is_relay[w]
    /\ relay_nets["4"] # <<>>
    /\ relay_nets["6"] # <<>>

\* C3: with only IPv6 ranges loaded every IPv4 address classifies false, and
\* with only IPv4 ranges loaded every IPv6 address classifies false, also
\* when the address masked by a stored netmask equals a stored network
\* address of the other family.
C3_FamilyIsolation ==
  LET loaded == Loaded
  IN
  /\ \A w \in Workers :
       LET ip == AddrTable[ip_raw[w]]
       IN  (/\ Returned(w)
            /\ ip.ok
            /\ \A n \in loaded : n.version # ip.version)
             => is_relay[w] = FALSE
  /\ Built =>
       \A v \in {4, 6} :
         (\A n \in loaded : n.version # v)
           => \A x \in {0, Pow2(W4 - 2), Pow2(W4 - 1), Pow2(W4 - 1) + 1, ALL_ONES(v)} :
                ~Classify(Addr(v, x), relay_nets)

\* the address's value masked by a netmask of the other family is stored there
Coincides(w, k) ==
  \E i \in 1..Len(relay_nets[k]) :
    BitAnd(bin_ip[w], relay_nets[k][i].netmask.ip) \in relay_nets[k][i].range_set

\* an IPv4 address returned false on an IPv6-only index where its value
\* masked by a stored netmask is a stored network address
C3_Witness ==
  \E w \in Workers :
    /\ Returned(w)
    /\ ip_version[w] = 4
    /\ relay_nets["4"] = <<>>
    /\ Coincides(w, "6")
    /\ ~is_relay[w]

\* C4: a list with an entry that does not parse never gets past the loader:
\* the script ends at that entry and no query ever runs on the partly
\* built index; a list whose entries all parse is loaded in full.
C4_AllOrNothing ==
  LET loaded == Loaded
      bad == \E n \in loaded : ~n.ok
  IN  /\ bad => /\ main_pc \in {"load", "failed"}
                /\ ~queried
                /\ \A w \in Workers : wpc[w] = "idle"
      /\ main_pc = "failed" => bad /\ ~NetTable[relay_ranges[net_i]].ok
      /\ (~bad /\ main_pc \in {"spark", "done"})
           => \A n \in loaded : InIndex(n.version, n.netmask.ip, n.network_address)

\* the load failed after an earlier entry was inserted: a partly built index
\* exists and no query was made
C4_Witness ==
  /\ main_pc = "failed"
  /\ net_i > 1
  /\ relay_nets # EmptyNets
  /\ ~queried

\* the lists with the same distinct entries: permutations and repetitions
Rearrangements(L) ==
  {L2 \in ListsOver(Range(L), Len(L) + 1) : Range(L2) = Range(L)}

\* C5: the index built from a list answers every query as the index built
\* from any permutation of the list or from the list with entries
\* repeated: only the set of distinct entries matters.
C5_OrderAndDuplicates ==
  Built =>
    \A L2 \in Rearrangements(relay_ranges) :
      LET other == BuildIndex(L2)
      IN  /\ \A x \in QueryPool :
               (AddrTable[x].ok /\ Classify(AddrTable[x], other))
                 = (AddrTable[x].ok /\ Classify(AddrTable[x], relay_nets))
          /\ \A n \in Loaded : \A x \in Edges(n) :
               Classify(Addr(n.version, x), other) = Classify(Addr(n.version, x), relay_nets)

\* two different entries were loaded, and another order builds another dict
C5_Witness ==
  /\ Built
  /\ Len(relay_ranges) = 2
  /\ relay_ranges[1] # relay_ranges[2]
  /\ BuildIndex(<<relay_ranges[2], relay_ranges[1]>>) # relay_nets
  /\ BuildIndex(<<relay_ranges[1], relay_ranges[2], relay_ranges[1]>>) = relay_nets

\* C6: once the loader is through, no step of is_ip_private_relay changes
\* relay_nets: the netmask keys and the set under each key of both
\* sub-indexes stay as they are, and no empty group appears.
C6_QueryLeavesIndex ==
  [][(main_pc \in {"spark", "done"} \/ wpc' # wpc) => relay_nets' = relay_nets]_vars

\* an IPv6 address was looked up in an empty IPv6 sub-index next to a filled
\* IPv4 one, and the sub-index is still empty
C6_Witness ==
  \E w \in Workers :
    /\ Returned(w)
    /\ ip_version[w] = 6
    /\ relay_nets["6"] = <<>>
    /\ relay_nets["4"] # <<>>

\* C7: under every interleaving of the workers' steps each call returns
\* what the function returns when run alone on the same address and index.
C7_ConcurrentAsAlone ==
  \A w \in Workers :
    /\ wpc[w] # "raised"
    /\ Returned(w) => is_relay[w] = is_ip_private_relay(ip_raw[w], relay_nets)

\* a call returned true while another call on another address was in its loop
C7_Witness ==
  \E w \in Workers, u \in Workers :
    /\ w # u
    /\ Returned(w)
    /\ is_relay[w]
    /\ wpc[u] = "iter"
    /\ it[u] > 1
    /\ ip_raw[u] # ip_raw[w]

\* every entry of the list has been taken by the loader loop
LoadComplete ==
  /\ net_i = Len(relay_ranges) + 1
  /\ main_pc \in {"spark", "done"}
  /\ \A i \in 1..Len(relay_ranges) :
       LET n == NetTable[relay_ranges[i]]
       IN  n.ok /\ InIndex(n.version, n.netmask.ip, n.network_address)

\* C8: the first query is issued only after every entry of the list has
\* been inserted, and nothing is inserted after a query has been issued.
C8_LoadBeforeQueries ==
  /\ [](queried => LoadComplete)
  /\ [][queried => relay_nets' = relay_nets]_vars

\* a query is in flight on an index holding both entries of the list
C8_Witness ==
  /\ queried
  /\ wpc[1] = "parse"
  /\ Len(relay_ranges) = 2
  /\ Len(relay_nets["4"]) + Len(relay_nets["6"]) = 2

\* C9: at every moment of loading and after it, each stored address A under
\* netmask M has A & M = A, M is the high-order prefix_length bits of the
\* family's width, and the pair sits in the sub-index of its family.
C9_StoredPairs ==
  \A k \in {"4", "6"} :
    \A i \in 1..Len(relay_nets[k]) :
      LET item == relay_nets[k][i]
          v == IF k = "4" THEN 4 ELSE 6
          w == IF k = "4" THEN V4Octets * OctetBits ELSE V6Hextets * HextetBits
          M == item.netmask.ip
      IN  /\ item.netmask.ok
          /\ item.netmask.version = v
          /\ \E p \in 0..w : M = HighBits(w, p)
          /\ item.range_set # {}
          /\ \A j \in 1..Len(relay_nets[k]) : j # i => relay_nets[k][j].netmask # item.netmask
          /\ \A A \in item.range_set :
               /\ A \in 0..(Pow2(w) - 1)
               /\ BitAnd(A, M) = A
               /\ \E j \in 1..(net_i - 1) :
                    LET n == NetTable[relay_ranges[j]]
                    IN  /\ n.ok
                        /\ n.version = v
                        /\ n.network_address = A
                        /\ M = HighBits(w, n.prefixlen)

\* during loading, both sub-indexes hold a range
C9_Witness ==
  /\ main_pc = "load"
  /\ relay_nets["4"] # <<>>
  /\ relay_nets["6"] # <<>>

\* an entry whose address and prefix length are well formed for family v
WellFormed(v, a) ==
  LET parts == split_addr_prefix(a)
  IN  /\ parts # <<>>
      /\ (IF v = 4 THEN IPv4Address(parts[1]) ELSE IPv6Address(parts[1])).ok
      /\ make_netmask(v, parts) # -1

FamilyOf(a) == IF WellFormed(4, a) THEN 4 ELSE IF WellFormed(6, a) THEN 6 ELSE 0

AddressOf(v, a) ==
  (IF v = 4 THEN IPv4Address(split_addr_prefix(a)[1])
            ELSE IPv6Address(split_addr_prefix(a)[1])).ip

\* the network of a well-formed entry: its address ANDed with its netmask
Masked(v, a) ==
  LET p == make_netmask(v, split_addr_prefix(a))
  IN  Net(v, BitAnd(AddressOf(v, a), ip_int_from_prefix(v, p)), p)

\* family, address as written and masked network of each entry that can be drawn
EntryTable ==
  [a \in RangePool |->
     [family |-> FamilyOf(a),
      address |-> IF FamilyOf(a) = 0 THEN 0 ELSE AddressOf(FamilyOf(a), a),
      masked |-> IF FamilyOf(a) = 0 THEN NetValueError ELSE Masked(FamilyOf(a), a)]]

\* the loader loop has taken entry i
Processed(i) == i < net_i \/ (i = net_i /\ main_pc = "failed")

\* C10 as stated: every well-formed entry, host bits set or not, has its
\* address ANDed with its netmask inserted.
C10_MaskedInserted ==
  \A i \in 1..Len(relay_ranges) :
    LET e == EntryTable[relay_ranges[i]]
    IN  (Processed(i) /\ e.family # 0)
          => InIndex(e.family, e.masked.netmask.ip, e.masked.network_address)

\* C10 amended: a well-formed entry with zero host bits has its address,
\* which equals the address ANDed with the netmask, inserted, and every
\* address of that network then classifies true; a well-formed entry with
\* host bits set is refused: the load ends at it with nothing inserted for it.
C10_StrictLoad ==
  /\ \A i \in 1..Len(relay_ranges) :
       LET e == EntryTable[relay_ranges[i]]
           v == e.family
           n == e.masked
       IN  (Processed(i) /\ v # 0) =>
             IF e.address = n.network_address
             THEN /\ i < net_i
                  /\ InIndex(v, n.netmask.ip, n.network_address)
                  /\ Classify(Addr(v, n.network_address), relay_nets)
                  /\ Classify(Addr(v, n.network_address + HostMask(n)), relay_nets)
                  /\ (v = 4 /\ Built) =>
                       \A x \in n.network_address..(n.network_address + HostMask(n)) :
                         Classify(Addr(4, x), relay_nets)
             ELSE /\ main_pc = "failed"
                  /\ net_i = i
  /\ main_pc = "failed" => relay_nets = BuildIndex(SubSeq(relay_ranges, 1, net_i - 1))

\* the loader stopped at a well-formed entry with host bits set, after it
\* had inserted an earlier entry
C10_Witness ==
  /\ main_pc = "failed"
  /\ net_i = 2
  /\ EntryTable[relay_ranges[net_i]].family # 0
  /\ relay_nets # EmptyNets
====
